---- MODULE Spec2Model ----
(***************************************************************************)
(* Model of bitarray/__init__.py (bitarray 0.8.1): the prefix-code trie    *)
(* builder (_tree_insert, _mk_tree), the code table validator              *)
(* (_check_codedict), the decode / iterdecode / encode wrappers of class   *)
(* bitarray, and the raising stubs of class frozenbitarray.                *)
(***************************************************************************)
EXTENDS Integers, Sequences, FiniteSets, TLC

\* Bounds of the model.
MaxCodeLen == 2      \* longest codeword of a code table
MaxEntries == 3      \* most entries of a code table

Bit == {0, 1}

RECURSIVE BitSeqs(_)
BitSeqs(n) ==
    IF n = 0 THEN {<<>>}
    ELSE LET shorter == BitSeqs(n - 1)
         IN  shorter \cup {Append(b, x) : b \in {c \in shorter : Len(c) = n - 1}, x \in Bit}

IsPrefix(p, q) == Len(p) <= Len(q) /\ SubSeq(q, 1, Len(p)) = p

(***************************************************************************)
(* Python values.  Every value is a record of one shape, so that any two   *)
(* values can be compared:  a list (the trie's [] and [x, y]), a str and   *)
(* an int (the hashable symbols a code table may use as keys).             *)
(***************************************************************************)
PyList(items) == [ty |-> "list", items |-> items, s |-> <<>>]
PyStr(chars)  == [ty |-> "str",  items |-> <<>>,  s |-> chars]
PyInt(digits) == [ty |-> "int",  items |-> <<>>,  s |-> <<digits>>]

Empty       == PyList(<<>>)                  \* []
Placeholder == PyList(<<Empty, Empty>>)      \* [[], []]

SymA  == PyStr(<<"a">>)
SymCD == PyStr(<<"c", "d">>)
Sym7  == PyInt("7")
Symbols == {SymA, SymCD, Sym7}

NoExc == "none"
PyOk(val)  == [exc |-> NoExc, val |-> val]
PyErr(exc) == [exc |-> exc, val |-> Empty]

\* obj[v] for v in {False, True}
PyGetItem(obj, v) ==
    IF obj.ty = "list"
    THEN IF v < Len(obj.items) THEN PyOk(obj.items[v + 1]) ELSE PyErr("IndexError")
    ELSE IF obj.ty = "str"
    THEN IF v < Len(obj.s) THEN PyOk(PyStr(<<obj.s[v + 1]>>)) ELSE PyErr("IndexError")
    ELSE PyErr("TypeError")

\* obj[v] = new
PySetItem(obj, v, new) ==
    IF obj.ty = "list"
    THEN IF v < Len(obj.items)
         THEN PyOk(PyList([obj.items EXCEPT ![v + 1] = new]))
         ELSE PyErr("IndexError")
    ELSE PyErr("TypeError")

\* The object reached from root by indexing with the bits of path in turn.
RECURSIVE At(_, _)
At(root, path) ==
    IF path = <<>> THEN root
    ELSE At(PyGetItem(root, path[1]).val, Tail(path))

\* root after the in-place assignment At(root, path)[v] = new (lists are shared
\* by reference, so the assignment is seen from the root).
RECURSIVE SetAt(_, _, _, _)
SetAt(root, path, v, new) ==
    IF path = <<>> THEN PySetItem(root, v, new).val
    ELSE PyList([root.items EXCEPT
                    ![path[1] + 1] = SetAt(root.items[path[1] + 1], Tail(path), v, new)])

(***************************************************************************)
(* _tree_insert: one invocation.  root is the trie under construction,     *)
(* path the bits consumed by the enclosing invocations (the argument       *)
(* `tree` is At(root, path)), ba the rest of the codeword.                 *)
(***************************************************************************)
StepRecurse(root, path, ba) ==
    [kind |-> "recurse", root |-> root, path |-> path, ba |-> ba, exc |-> NoExc]
StepReturn(root) ==
    [kind |-> "return", root |-> root, path |-> <<>>, ba |-> <<>>, exc |-> NoExc]
StepRaise(root, exc) ==
    [kind |-> "raise", root |-> root, path |-> <<>>, ba |-> <<>>, exc |-> exc]

AmbiguousError == "ValueError: prefix code ambiguous"

\* Mutant: the final-bit branch stores the symbol without looking at the slot.
TreeInsertNoFinalCheck(root, path, sym, ba) ==
    LET tree == At(root, path)
        v    == ba[1]
        got  == PyGetItem(tree, v)
    IN  IF got.exc # NoExc THEN StepRaise(root, got.exc)
        ELSE IF Len(ba) > 1
        THEN IF got.val = Empty
             THEN StepRecurse(SetAt(root, path, v, Placeholder), Append(path, v), Tail(ba))
             ELSE StepRecurse(root, Append(path, v), Tail(ba))
        ELSE IF tree.ty # "list" THEN StepRaise(root, "TypeError")
             ELSE StepReturn(SetAt(root, path, v, sym))

\* Mutant: the recursive call is given tree instead of tree[v].
TreeInsertNoDescend(root, path, sym, ba) ==
    LET tree == At(root, path)
        v    == ba[1]
        got  == PyGetItem(tree, v)
    IN  IF got.exc # NoExc THEN StepRaise(root, got.exc)
        ELSE IF Len(ba) > 1
        THEN IF got.val = Empty
             THEN StepRecurse(SetAt(root, path, v, Placeholder), path, Tail(ba))
             ELSE StepRecurse(root, path, Tail(ba))
        ELSE IF got.val # Empty
             THEN StepRaise(root, AmbiguousError)
             ELSE StepReturn(SetAt(root, path, v, sym))

\* Mutant: a non-final bit always stores a fresh [[], []] in the slot.
TreeInsertAlwaysWiden(root, path, sym, ba) ==
    LET tree == At(root, path)
        v    == ba[1]
        got  == PyGetItem(tree, v)
    IN  IF got.exc # NoExc THEN StepRaise(root, got.exc)
        ELSE IF Len(ba) > 1
        THEN IF tree.ty # "list" THEN StepRaise(root, "TypeError")
             ELSE StepRecurse(SetAt(root, path, v, Placeholder), Append(path, v), Tail(ba))
        ELSE IF got.val # Empty
             THEN StepRaise(root, AmbiguousError)
             ELSE StepReturn(SetAt(root, path, v, sym))

_tree_insert(root, path, sym, ba) ==
    LET tree == At(root, path)
        v    == ba[1]
        got  == PyGetItem(tree, v)
    IN  IF Len(ba) = 0 THEN StepRaise(root, "IndexError")
        ELSE IF got.exc # NoExc THEN StepRaise(root, got.exc)
        ELSE IF Len(ba) > 1
        THEN IF got.val = Empty
             THEN LET set == PySetItem(tree, v, Placeholder)
                  IN  IF set.exc # NoExc THEN StepRaise(root, set.exc)
                      ELSE StepRecurse(SetAt(root, path, v, Placeholder),
                                       Append(path, v), Tail(ba))
             ELSE StepRecurse(root, Append(path, v), Tail(ba))
        ELSE IF got.val # Empty
             THEN StepRaise(root, AmbiguousError)
             ELSE LET set == PySetItem(tree, v, sym)
                  IN  IF set.exc # NoExc THEN StepRaise(root, set.exc)
                      ELSE StepReturn(SetAt(root, path, v, sym))

\* _tree_insert with its recursive calls: "return" or "raise".
RECURSIVE TreeInsert(_, _, _, _)
TreeInsert(root, path, sym, ba) ==
    LET r == _tree_insert(root, path, sym, ba)
    IN  IF r.kind = "recurse" THEN TreeInsert(r.root, r.path, sym, r.ba) ELSE r

(***************************************************************************)
(* Code tables.  A dict is given by its items in iteration order; an item  *)
(* maps the symbol k to a value of class cls holding bits.  A value that   *)
(* is no dict (a list of pairs, say) has isdict = FALSE.                   *)
(***************************************************************************)
Item(k, cls, bits) == [k |-> k, cls |-> cls, bits |-> bits]

Dict(items) == [isdict |-> TRUE, items |-> items]
NotADict    == [isdict |-> FALSE, items |-> <<>>]

DistinctKeys(d) == \A i, j \in 1..Len(d) : d[i].k = d[j].k => i = j

DictsOver(items, n) ==
    {Dict(d) : d \in UNION {{e \in [1..m -> items] : DistinctKeys(e)} : m \in 0..n}}

\* _mk_tree: the initial tree and the loop over codedict.items().
RootTree == PyList(<<Empty, Empty>>)

RECURSIVE MkTreeFrom(_, _, _)
MkTreeFrom(root, items, i) ==
    IF i > Len(items) THEN StepReturn(root)
    ELSE LET r == TreeInsert(root, <<>>, items[i].k, items[i].bits)
         IN  IF r.kind = "raise" THEN r ELSE MkTreeFrom(r.root, items, i + 1)

_mk_tree(cd) == MkTreeFrom(RootTree, cd.items, 1)

\* _check_codedict: the exception it raises, or NoExc.
DictExpected     == "TypeError: dictionary expected"
CodeEmpty        == "ValueError: prefix code empty"
BitarrayExpected == "TypeError: bitarray expected for dictionary value"
NonEmptyExpected == "ValueError: non-empty bitarray expected"

RECURSIVE CheckItems(_, _)
CheckItems(items, i) ==
    IF i > Len(items) THEN NoExc
    ELSE IF items[i].cls \notin {"bitarray", "frozenbitarray"} THEN BitarrayExpected
    ELSE IF Len(items[i].bits) = 0 THEN NonEmptyExpected
    ELSE CheckItems(items, i + 1)

\* Mutant: the test for an empty table is left out.
CheckCodedictNoEmptyTest(cd) ==
    IF ~cd.isdict THEN DictExpected
    ELSE CheckItems(cd.items, 1)

_check_codedict(cd) ==
    IF ~cd.isdict THEN DictExpected
    ELSE IF Len(cd.items) = 0 THEN CodeEmpty
    ELSE CheckItems(cd.items, 1)

(***************************************************************************)
(* State.                                                                  *)
(*   pc        where the running call stands                               *)
(*   op        the method called                                           *)
(*   self      the bits of the receiver                                    *)
(*   before    the bits of the receiver when the method was called         *)
(*   codedict  the code table passed                                       *)
(*   arg       the symbols passed to encode                                *)
(*   tree      the trie under construction or built (NoValue: none)        *)
(*   idx, path, ba   _mk_tree's loop index, and the position and the rest  *)
(*             of the codeword of the running _tree_insert                 *)
(*   native    whether the native _decode/_iterdecode/_encode was entered  *)
(*   pos       bits consumed so far by the lazy decoder                    *)
(*   yielded   symbols the lazy decoder has yielded                        *)
(*   outcome   what the call has produced                                  *)
(*   cls, nargs  class of the receiver and number of arguments passed      *)
(***************************************************************************)
VARIABLES pc, op, self, before, codedict, arg, tree, idx, path, ba,
          native, pos, yielded, outcome, cls, nargs

vars == <<pc, op, self, before, codedict, arg, tree, idx, path, ba,
          native, pos, yielded, outcome, cls, nargs>>

\* What a call has produced so far: nothing yet, a returned value, or an
\* exception (which carries no value to the caller); at is the number of the
\* bit at which a decoder failed (0: not a decoder failure).
NoValue == [ty |-> "NoneType", items |-> <<>>, s |-> <<>>]
None == [kind |-> "none", exc |-> NoExc, value |-> NoValue, at |-> 0]
Returned(value) == [kind |-> "return", exc |-> NoExc, value |-> value, at |-> 0]
Raised(exc) == [kind |-> "raise", exc |-> exc, value |-> NoValue, at |-> 0]
RaisedAt(exc, at) == [kind |-> "raise", exc |-> exc, value |-> NoValue, at |-> at]

(***************************************************************************)
(* SpecBuild: _mk_tree(codedict) on a validated table, one invocation of   *)
(* _tree_insert per step.                                                  *)
(***************************************************************************)
ValidItems ==
    {Item(k, "bitarray", c) : k \in Symbols, c \in BitSeqs(MaxCodeLen) \ {<<>>}}

ValidatedTables == DictsOver(ValidItems, MaxEntries) \ {Dict(<<>>)}

BuildInit ==
    /\ pc = "mk_tree"
    /\ op = "_mk_tree"
    /\ codedict \in ValidatedTables
    /\ tree = RootTree
    /\ idx = 1
    /\ path = <<>>
    /\ ba = <<>>
    /\ outcome = None
    /\ self = <<>> /\ before = <<>> /\ arg = <<>> /\ native = FALSE
    /\ pos = 0 /\ yielded = <<>> /\ cls = "bitarray" /\ nargs = 1

\* for sym, ba in codedict.items(): the call _tree_insert(tree, sym, ba)
NextItem ==
    /\ pc = "mk_tree"
    /\ idx <= Len(codedict.items)
    /\ pc' = "insert"
    /\ path' = <<>>
    /\ ba' = codedict.items[idx].bits
    /\ UNCHANGED <<op, self, before, codedict, arg, tree, idx, native, pos, yielded,
                   outcome, cls, nargs>>

\* one invocation of _tree_insert
InsertStep ==
    /\ pc = "insert"
    /\ LET r == _tree_insert(tree, path, codedict.items[idx].k, ba)
       IN  /\ tree' = r.root
           /\ path' = r.path
           /\ ba' = r.ba
           /\ pc' = CASE r.kind = "recurse" -> "insert"
                      [] r.kind = "return"  -> "mk_tree"
                      [] r.kind = "raise"   -> "raised"
           /\ idx' = IF r.kind = "return" THEN idx + 1 ELSE idx
           /\ outcome' = IF r.kind = "raise" THEN Raised(r.exc) ELSE outcome
    /\ UNCHANGED <<op, self, before, codedict, arg, native, pos, yielded, cls, nargs>>

\* return tree
BuildReturn ==
    /\ pc = "mk_tree"
    /\ idx > Len(codedict.items)
    /\ pc' = "returned"
    /\ outcome' = Returned(tree)
    /\ UNCHANGED <<op, self, before, codedict, arg, tree, idx, path, ba, native, pos,
                   yielded, cls, nargs>>

BuildNext == NextItem \/ InsertStep \/ BuildReturn

SpecBuild == BuildInit /\ [][BuildNext]_vars

(***************************************************************************)
(* The native engine (bitarray._bitarray) as the wrappers use it.          *)
(***************************************************************************)
MalformedCode  == "malformed-code"
IncompleteCode == "incomplete-code"
UnknownSymbol  == "unknown-symbol"

\* self._decode(tree): walk the trie over all of bits.  i is the number of the
\* next bit, node the cursor, depth its distance from the root, out the
\* symbols emitted so far.
RECURSIVE DecodeFrom(_, _, _, _, _, _)
DecodeFrom(root, bits, i, node, depth, out) ==
    IF i > Len(bits)
    THEN IF depth = 0 THEN Returned(PyList(out)) ELSE RaisedAt(IncompleteCode, i)
    ELSE LET n == node.items[bits[i] + 1]
         IN  IF n = Empty THEN RaisedAt(MalformedCode, i)
             ELSE IF n.ty = "list" THEN DecodeFrom(root, bits, i + 1, n, depth + 1, out)
             ELSE DecodeFrom(root, bits, i + 1, root, 0, Append(out, n))

_decode(bits, root) == DecodeFrom(root, bits, 1, root, 0, <<>>)

\* One request to the iterator of self._iterdecode(tree), p bits being
\* consumed already: it yields a symbol, ends, or fails.
RECURSIVE LazyFrom(_, _, _, _, _)
LazyFrom(root, bits, i, node, depth) ==
    IF i > Len(bits)
    THEN IF depth = 0
         THEN [kind |-> "stop", sym |-> NoValue, pos |-> i - 1, exc |-> NoExc]
         ELSE [kind |-> "raise", sym |-> NoValue, pos |-> i, exc |-> IncompleteCode]
    ELSE LET n == node.items[bits[i] + 1]
         IN  IF n = Empty
             THEN [kind |-> "raise", sym |-> NoValue, pos |-> i, exc |-> MalformedCode]
             ELSE IF n.ty = "list" THEN LazyFrom(root, bits, i + 1, n, depth + 1)
             ELSE [kind |-> "yield", sym |-> n, pos |-> i, exc |-> NoExc]

_iterdecode_next(bits, root, p) == LazyFrom(root, bits, p + 1, root, 0)

\* self._encode(codedict, iterable): look each symbol up and append its
\* codeword.  The result is the receiver's bits and the outcome.
HasKey(items, sym) == \E i \in 1..Len(items) : items[i].k = sym
Lookup(items, sym) == items[CHOOSE i \in 1..Len(items) : items[i].k = sym].bits

RECURSIVE EncodeFrom(_, _, _, _)
EncodeFrom(bits, items, iterable, k) ==
    IF k > Len(iterable) THEN [self |-> bits, outcome |-> Returned(NoValue)]
    ELSE IF ~HasKey(items, iterable[k])
    THEN [self |-> bits, outcome |-> RaisedAt(UnknownSymbol, k)]
    ELSE EncodeFrom(bits \o Lookup(items, iterable[k]), items, iterable, k + 1)

_encode(bits, cd, iterable) == EncodeFrom(bits, cd.items, iterable, 1)

(***************************************************************************)
(* The wrappers of class bitarray.  Each gives the outcome of the call,    *)
(* the receiver's bits after it, the trie it built (NoValue: _mk_tree was  *)
(* not reached) and whether the native method was entered.                 *)
(***************************************************************************)
Call(out, bits, t, nat) == [outcome |-> out, self |-> bits, tree |-> t, native |-> nat]

\* Mutant: decode answers a decoding failure with an empty list.
DecodeSwallow(bits, cd) ==
    LET chk == _check_codedict(cd)
        t   == _mk_tree(cd)
        r   == _decode(bits, t.root)
    IN  IF chk # NoExc THEN Call(Raised(chk), bits, NoValue, FALSE)
        ELSE IF t.kind = "raise" THEN Call(Raised(t.exc), bits, t.root, FALSE)
        ELSE IF r.kind = "raise" THEN Call(Returned(PyList(<<>>)), bits, t.root, TRUE)
        ELSE Call(r, bits, t.root, TRUE)

decode(bits, cd) ==
    LET chk == _check_codedict(cd)
        t   == _mk_tree(cd)
    IN  IF chk # NoExc THEN Call(Raised(chk), bits, NoValue, FALSE)
        ELSE IF t.kind = "raise" THEN Call(Raised(t.exc), bits, t.root, FALSE)
        ELSE Call(_decode(bits, t.root), bits, t.root, TRUE)

\* Mutant: iterdecode builds the trie without validating the table first.
IterdecodeUnchecked(bits, cd) ==
    LET t == _mk_tree(cd)
    IN  IF ~cd.isdict THEN Call(Raised("AttributeError"), bits, NoValue, FALSE)
        ELSE IF t.kind = "raise" THEN Call(Raised(t.exc), bits, t.root, FALSE)
        ELSE Call(Returned(NoValue), bits, t.root, TRUE)

\* iterdecode returns the iterator; its symbols come from IterNext.
iterdecode(bits, cd) ==
    LET chk == _check_codedict(cd)
        t   == _mk_tree(cd)
    IN  IF chk # NoExc THEN Call(Raised(chk), bits, NoValue, FALSE)
        ELSE IF t.kind = "raise" THEN Call(Raised(t.exc), bits, t.root, FALSE)
        ELSE Call(Returned(NoValue), bits, t.root, TRUE)

\* Mutant: encode works on a copy and stores it only when every symbol was known.
EncodeAtomic(bits, cd, iterable) ==
    LET chk == _check_codedict(cd)
        r   == _encode(bits, cd, iterable)
    IN  IF chk # NoExc THEN Call(Raised(chk), bits, NoValue, FALSE)
        ELSE IF r.outcome.kind = "raise" THEN Call(r.outcome, bits, NoValue, TRUE)
        ELSE Call(r.outcome, r.self, NoValue, TRUE)

encode(bits, cd, iterable) ==
    LET chk == _check_codedict(cd)
        r   == _encode(bits, cd, iterable)
    IN  IF chk # NoExc THEN Call(Raised(chk), bits, NoValue, FALSE)
        ELSE Call(r.outcome, r.self, NoValue, TRUE)

(***************************************************************************)
(* Spec: one call of decode, iterdecode (with the requests to its          *)
(* iterator) or encode on a bitarray.                                      *)
(***************************************************************************)
MaxBits   == 3       \* longest receiver before the call
MaxSyms   == 2       \* longest symbol sequence passed to encode

\* Keys of the tables passed to the codec; encode is also given SymCD, which
\* none of these tables knows.
TableKeys == {SymA, Sym7}

CodecItems ==
    {Item(k, "bitarray", c) : k \in TableKeys, c \in BitSeqs(MaxCodeLen)}
        \cup {Item(k, "str", <<>>) : k \in TableKeys}

CodecTables == DictsOver(CodecItems, MaxEntries) \cup {NotADict}

SymbolSeqs == UNION {[1..n -> Symbols] : n \in 0..MaxSyms}

Init ==
    /\ pc = "idle"
    /\ op = "none"
    /\ self \in BitSeqs(MaxBits)
    /\ before = self
    /\ codedict = NotADict
    /\ arg = <<>>
    /\ tree = NoValue
    /\ idx = 1 /\ path = <<>> /\ ba = <<>>
    /\ native = FALSE
    /\ pos = 0
    /\ yielded = <<>>
    /\ outcome = None
    /\ cls = "bitarray"
    /\ nargs = 0

\* self.decode(codedict)
Decode ==
    /\ pc = "idle"
    /\ \E cd \in CodecTables :
        LET r == decode(self, cd)
        IN  /\ codedict' = cd
            /\ outcome' = r.outcome
            /\ self' = r.self
            /\ tree' = r.tree
            /\ native' = r.native
    /\ pc' = "done"
    /\ op' = "decode"
    /\ nargs' = 1
    /\ UNCHANGED <<before, arg, idx, path, ba, pos, yielded, cls>>

\* it = self.iterdecode(codedict)
Iterdecode ==
    /\ pc = "idle"
    /\ \E cd \in CodecTables :
        LET r == iterdecode(self, cd)
        IN  /\ codedict' = cd
            /\ outcome' = r.outcome
            /\ self' = r.self
            /\ tree' = r.tree
            /\ native' = r.native
            /\ pc' = IF r.outcome.kind = "raise" THEN "done" ELSE "iter"
    /\ op' = "iterdecode"
    /\ nargs' = 1
    /\ UNCHANGED <<before, arg, idx, path, ba, pos, yielded, cls>>

\* next(it)
IterNext ==
    /\ pc = "iter"
    /\ LET r == _iterdecode_next(self, tree, pos)
       IN  /\ pos' = r.pos
           /\ yielded' = IF r.kind = "yield" THEN Append(yielded, r.sym) ELSE yielded
           /\ outcome' = CASE r.kind = "yield" -> outcome
                           [] r.kind = "stop"  -> Returned(PyList(yielded))
                           [] r.kind = "raise" -> RaisedAt(r.exc, r.pos)
           /\ pc' = IF r.kind = "yield" THEN "iter" ELSE "done"
    /\ UNCHANGED <<op, self, before, codedict, arg, tree, idx, path, ba, native, cls, nargs>>

\* self.encode(codedict, iterable)
Encode ==
    /\ pc = "idle"
    /\ \E cd \in CodecTables, syms \in SymbolSeqs :
        LET r == encode(self, cd, syms)
        IN  /\ codedict' = cd
            /\ arg' = syms
            /\ outcome' = r.outcome
            /\ self' = r.self
            /\ tree' = r.tree
            /\ native' = r.native
    /\ pc' = "done"
    /\ op' = "encode"
    /\ nargs' = 2
    /\ UNCHANGED <<before, idx, path, ba, pos, yielded, cls>>

Next == Decode \/ Iterdecode \/ IterNext \/ Encode

Spec == Init /\ [][Next]_vars

(***************************************************************************)
(* Classes.  bitarray and frozenbitarray both derive from the native       *)
(* _bitarray; each method name resolves in the class first, then in        *)
(* _bitarray.                                                              *)
(***************************************************************************)
Params(min, max) == [min |-> min, max |-> max, star |-> FALSE]
StarArgs         == [min |-> 0, max |-> 0, star |-> TRUE]

\* The methods class frozenbitarray defines to raise NotImplementedError, with
\* the numbers of arguments (after self) their signatures take.
FrozenStubs ==
    [n \in {"append", "extend", "frombytes", "pack", "remove", "setall",
            "__delitem__", "__iadd__", "__imul__", "__iand__", "__ior__", "__ixor__"}
        |-> Params(1, 1)]
    @@ [n \in {"bytereverse", "_encode", "fill", "invert", "reverse", "__invert__"}
        |-> Params(0, 0)]
    @@ [n \in {"fromfile", "pop", "sort"} |-> Params(0, 1)]
    @@ [n \in {"insert"} |-> Params(2, 2)]
    @@ [n \in {"__setitem__"} |-> StarArgs]

\* The methods class bitarray defines.
BitarrayMethods == {"fromstring", "tostring", "decode", "iterdecode", "encode", "__hash__"}

\* The reading methods of the native _bitarray, and the native _decode and
\* _iterdecode.
NativeReads == {"__len__", "__getitem__", "tolist", "__eq__", "tobytes", "__invert__",
                "_decode", "_iterdecode"}

Accepts(params, n) == params.star \/ (params.min <= n /\ n <= params.max)

PyBits(bits) == [ty |-> "bitarray", items |-> <<>>, s |-> bits]
PyNum(n)     == [ty |-> "number", items |-> <<>>, s |-> <<n>>]

\* What a reading method of _bitarray returns for a receiver holding bits.
NativeRead(name, bits) ==
    CASE name = "__len__"     -> Returned(PyNum(Len(bits)))
      [] name = "__getitem__" -> IF bits = <<>> THEN Raised("IndexError")
                                 ELSE Returned(PyNum(bits[1]))
      [] name = "tolist"      -> Returned(PyBits(bits))
      [] name = "__eq__"      -> Returned(PyNum(1))
      [] name = "tobytes"     -> Returned(PyBits(bits \o [i \in 1..((8 - (Len(bits) % 8)) % 8) |-> 0]))
      [] name = "__invert__"  -> Returned(PyBits([i \in 1..Len(bits) |-> 1 - bits[i]]))
      [] OTHER                -> Raised("AttributeError")

\* frozenbitarray(bits).name(n arguments); decode and iterdecode are passed cd.
FrozenCall(name, n, bits, cd) ==
    IF name \in DOMAIN FrozenStubs
    THEN IF Accepts(FrozenStubs[name], n)
         THEN Call(Raised("NotImplementedError"), bits, NoValue, FALSE)
         ELSE Call(Raised("TypeError"), bits, NoValue, FALSE)
    ELSE IF name \in NativeReads
    THEN Call(NativeRead(name, bits), bits, NoValue, TRUE)
    ELSE Call(Raised("AttributeError"), bits, NoValue, FALSE)

\* bitarray(bits).name(...) for the reading methods.
BitarrayRead(name, bits, cd) ==
    IF name = "decode" THEN decode(bits, cd)
    ELSE IF name = "iterdecode" THEN iterdecode(bits, cd)
    ELSE IF name \in NativeReads THEN Call(NativeRead(name, bits), bits, NoValue, TRUE)
    ELSE Call(Raised("AttributeError"), bits, NoValue, FALSE)

(***************************************************************************)
(* SpecFrozen: methods are called, one after the other, on a               *)
(* frozenbitarray.                                                         *)
(***************************************************************************)
\* The operations that mutate a bitarray, and the numbers of arguments with
\* which they are called: encode passes (codedict, iterable) to _encode, item
\* assignment passes (key, value), the others are called as their stubs are
\* declared.
MutatingOps == DOMAIN FrozenStubs \ {"__invert__"}

EncodeArgc == 2

CallArgc(name) ==
    IF name = "_encode" THEN {EncodeArgc}
    ELSE IF FrozenStubs[name].star THEN {2}
    ELSE FrozenStubs[name].min .. FrozenStubs[name].max

ReadOps == {"__len__", "__getitem__", "tolist", "__eq__", "tobytes", "__invert__",
            "decode", "iterdecode"}

FrozenInit ==
    /\ pc = "idle"
    /\ op = "none"
    /\ cls = "frozenbitarray"
    /\ self \in BitSeqs(MaxBits)
    /\ before = self
    /\ codedict = NotADict
    /\ arg = <<>>
    /\ tree = NoValue
    /\ idx = 1 /\ path = <<>> /\ ba = <<>>
    /\ native = FALSE
    /\ pos = 0
    /\ yielded = <<>>
    /\ outcome = None
    /\ nargs = 0

\* a mutating operation is tried on the frozenbitarray
FrozenMutate ==
    /\ \E name \in MutatingOps, n \in 0..2 :
        /\ n \in CallArgc(name)
        /\ LET r == FrozenCall(name, n, self, NotADict)
           IN  /\ op' = name
               /\ nargs' = n
               /\ outcome' = r.outcome
               /\ self' = r.self
               /\ native' = r.native
    /\ pc' = "mutate"
    /\ codedict' = NotADict
    /\ UNCHANGED <<before, arg, tree, idx, path, ba, pos, yielded, cls>>

\* The tables passed to decode and iterdecode of the frozenbitarray.
FrozenTables == DictsOver(CodecItems, 1) \cup {NotADict}

ReadArgc(name) == IF name \in {"decode", "iterdecode", "__getitem__", "__eq__"} THEN 1 ELSE 0

\* a reading operation is tried on the frozenbitarray
FrozenRead ==
    /\ \E name \in ReadOps :
        \E cd \in IF name \in {"decode", "iterdecode"} THEN FrozenTables ELSE {NotADict} :
            LET r == FrozenCall(name, ReadArgc(name), self, cd)
            IN  /\ op' = name
                /\ nargs' = ReadArgc(name)
                /\ codedict' = cd
                /\ outcome' = r.outcome
                /\ self' = r.self
                /\ native' = r.native
    /\ pc' = "read"
    /\ UNCHANGED <<before, arg, tree, idx, path, ba, pos, yielded, cls>>

FrozenNext == FrozenMutate \/ FrozenRead

SpecFrozen == FrozenInit /\ [][FrozenNext]_vars

(***************************************************************************)
(* Properties of the trie build (checked under SpecBuild).                 *)
(***************************************************************************)
BuildEnded == pc \in {"returned", "raised"}

\* Some codeword of d is a strict prefix of another one.
HasStrictPrefixPair(d) ==
    \E i, j \in 1..Len(d) :
        IsPrefix(d[i].bits, d[j].bits) /\ Len(d[i].bits) < Len(d[j].bits)

\* No entry's codeword is equal to, or a prefix of, another entry's codeword.
PrefixFree(d) ==
    \A i, j \in 1..Len(d) : i # j => ~IsPrefix(d[i].bits, d[j].bits)

\* C1 (as claimed): a table with a codeword that is a strict prefix of another
\* makes the build fail with ValueError "prefix code ambiguous", whichever of
\* the two entries is inserted first and whatever bits follow the prefix.
C1_AmbiguousPrefixError ==
    (BuildEnded /\ HasStrictPrefixPair(codedict.items)) => outcome = Raised(AmbiguousError)

\* The orders in which the entries of d can be iterated.
Orders(d) ==
    {[i \in 1..Len(d) |-> d[f[i]]] :
        f \in {g \in [1..Len(d) -> 1..Len(d)] : \A i, j \in 1..Len(d) : g[i] = g[j] => i = j}}

\* C9: the build accepts (returns) or rejects (raises) alike for every order of
\* the table's entries, it accepts exactly the prefix-free tables, and a
\* rejecting build hands no trie to its caller.
C9_OrderIndependent ==
    BuildEnded =>
        /\ (outcome.kind = "return") <=> PrefixFree(codedict.items)
        /\ \A d \in Orders(codedict.items) : _mk_tree(Dict(d)).kind = outcome.kind
        /\ outcome.kind = "raise" => outcome.value = NoValue
        /\ outcome.kind = "return" => outcome.value = _mk_tree(codedict).root

\* C9 witness: a three-entry table was rejected after an entry was inserted
\* below the leaf of a shorter codeword inserted before it.
C9_Witness ==
    /\ pc = "raised"
    /\ Len(codedict.items) = 3
    /\ idx = 3
    /\ outcome.exc # AmbiguousError

\* The slot reached from node n by the bits of p, through two-slot lists only.
Absent == [ty |-> "absent", items |-> <<>>, s |-> <<>>]

IsEmptySlot(n) == n = Empty
IsLeaf(n)      == n \in Symbols
IsInternal(n)  == n.ty = "list" /\ Len(n.items) = 2

RECURSIVE SlotAt(_, _)
SlotAt(n, p) ==
    IF p = <<>> THEN n
    ELSE IF n.ty = "list" /\ p[1] < Len(n.items) THEN SlotAt(n.items[p[1] + 1], Tail(p))
    ELSE Absent

SlotPaths == BitSeqs(MaxCodeLen + 1)

WellShaped(root) ==
    \A p \in SlotPaths :
        LET n == SlotAt(root, p)
        IN  n = Absent \/ IsEmptySlot(n) \/ IsLeaf(n) \/ IsInternal(n)

SlotsKept(old, new) ==
    \A p \in SlotPaths \ {<<>>} :
        LET n == SlotAt(old, p)
        IN  /\ IsLeaf(n) => SlotAt(new, p) = n
            /\ IsInternal(n) => IsInternal(SlotAt(new, p))

NoBarrenInternal(root) ==
    \A p \in SlotPaths :
        LET n == SlotAt(root, p)
        IN  IsInternal(n) => \E b \in Bit : ~IsEmptySlot(n.items[b + 1])

\* C10: at every step of the build each slot is Empty, a Leaf or a two-slot
\* Internal node; a Leaf slot is never changed and an Internal slot never
\* becomes a Leaf; a returned trie has no Internal node with two Empty slots.
C10_TrieShape ==
    /\ [](WellShaped(tree))
    /\ [][SlotsKept(tree, tree')]_vars
    /\ [](pc = "returned" => NoBarrenInternal(outcome.value))

\* C10 witness: a build returned a trie of three Leaves, one directly under the
\* root and two under an Internal node.
C10_Witness ==
    /\ pc = "returned"
    /\ Len(codedict.items) = 3
    /\ \E b \in Bit :
        /\ IsLeaf(SlotAt(tree, <<b>>))
        /\ IsInternal(SlotAt(tree, <<1 - b>>))
        /\ \A c \in Bit : IsLeaf(SlotAt(tree, <<1 - b, c>>))

(***************************************************************************)
(* Properties of the codec calls (checked under Spec).                     *)
(***************************************************************************)
Valid(cd) == _check_codedict(cd) = NoExc

\* The codewords of the symbols syms, one after the other.
RECURSIVE ConcatCodes(_, _)
ConcatCodes(items, syms) ==
    IF syms = <<>> THEN <<>>
    ELSE Lookup(items, Head(syms)) \o ConcatCodes(items, Tail(syms))

\* C2: round trip.  Encoding the symbols arg with a prefix-free table into an
\* empty bitarray and decoding the result with the same table gives arg back.
C2_RoundTrip ==
    (/\ pc = "done" /\ op = "encode" /\ before = <<>>
     /\ outcome.kind = "return"
     /\ PrefixFree(codedict.items))
        => decode(self, codedict).outcome = Returned(PyList(arg))

\* C2 witness: two different symbols were encoded into an empty bitarray with
\* a prefix-free table whose codewords differ in length.
C2_Witness ==
    /\ pc = "done" /\ op = "encode" /\ before = <<>>
    /\ outcome.kind = "return"
    /\ PrefixFree(codedict.items)
    /\ Len(arg) = 2 /\ arg[1] # arg[2]
    /\ Len(self) = 3

\* The largest member of a non-empty set of numbers.
Max(S) == CHOOSE x \in S : \A y \in S : y <= x
Min(S) == CHOOSE x \in S : \A y \in S : x <= y

\* The symbols the batch decoder recognizes in the bits before bit number at.
RecognizedBefore(bits, cd, at) ==
    LET ok == {k \in 0..(at - 1) :
                  k <= Len(bits) /\ decode(SubSeq(bits, 1, k), cd).outcome.kind = "return"}
    IN  decode(SubSeq(bits, 1, Max(ok)), cd).outcome.value

\* C3: decoder agreement.  When the lazy decoder has ended or failed, the batch
\* decoder on the same table and bits succeeds with the same symbols, or fails
\* with the same error at the same bit; before failing the lazy decoder yielded
\* exactly the symbols recognized before that bit.
C3_DecoderAgreement ==
    (pc = "done" /\ op = "iterdecode") =>
        LET b == decode(before, codedict).outcome
        IN  /\ self = before
            /\ outcome.kind = b.kind
            /\ outcome.exc = b.exc
            /\ outcome.at = b.at
            /\ b.kind = "return" => outcome.value = b.value
            /\ (b.kind = "raise" /\ b.at = 0) => yielded = <<>>
            /\ (b.kind = "raise" /\ b.at > 0) =>
                   PyList(yielded) = RecognizedBefore(before, codedict, b.at)

\* C3 witness: the lazy decoder yielded a symbol and then failed at the third
\* bit.
C3_Witness ==
    /\ pc = "done" /\ op = "iterdecode"
    /\ outcome.kind = "raise" /\ outcome.at = 3
    /\ Len(yielded) = 1

\* What is wrong with a table, told from the table alone.
BadType(cd)  == \E i \in 1..Len(cd.items) : cd.items[i].cls \notin {"bitarray", "frozenbitarray"}
ZeroLen(cd)  == \E i \in 1..Len(cd.items) :
                    /\ cd.items[i].cls \in {"bitarray", "frozenbitarray"}
                    /\ cd.items[i].bits = <<>>
Invalid(cd)  == ~cd.isdict \/ cd.items = <<>> \/ BadType(cd) \/ ZeroLen(cd)

TypeKind  == {DictExpected, BitarrayExpected}
ValueKind == {CodeEmpty, NonEmptyExpected}

\* C4: eager validation.  decode, iterdecode and encode reject an invalid table
\* at the call: with a type-kind error for a non-dict or a value that is no
\* bitarray, with a value-kind error for an empty table or an empty codeword;
\* no trie exists, the native method was not entered, the receiver is as before.
C4_EagerValidation ==
    (pc # "idle" /\ op \in {"decode", "iterdecode", "encode"} /\ Invalid(codedict)) =>
        /\ pc = "done"
        /\ outcome.kind = "raise"
        /\ outcome.exc \in TypeKind \cup ValueKind
        /\ ~codedict.isdict => outcome.exc \in TypeKind
        /\ (codedict.isdict /\ codedict.items = <<>>) => outcome.exc \in ValueKind
        /\ (BadType(codedict) /\ ~ZeroLen(codedict)) => outcome.exc \in TypeKind
        /\ (ZeroLen(codedict) /\ ~BadType(codedict)) => outcome.exc \in ValueKind
        /\ tree = NoValue
        /\ ~native
        /\ self = before
        /\ yielded = <<>>

\* C4 witness: encode was given symbols the table knows, a non-empty receiver
\* and a table whose second codeword is empty.
C4_Witness ==
    /\ pc = "done" /\ op = "encode"
    /\ Len(codedict.items) = 2
    /\ codedict.items[1].bits # <<>>
    /\ codedict.items[2].cls = "bitarray" /\ codedict.items[2].bits = <<>>
    /\ arg # <<>> /\ arg[1] = codedict.items[1].k
    /\ before # <<>>

\* C5: encode is not atomic and only appends.  With a valid table and sk the
\* first symbol the table does not know, encode fails with the unknown-symbol
\* error at k and the receiver holds its former bits followed by the codewords
\* of the symbols before sk; in every case the former bits remain a prefix.
C5_EncodeNotAtomic ==
    (pc = "done" /\ op = "encode") =>
        /\ IsPrefix(before, self)
        /\ Valid(codedict) =>
            LET unknown == {k \in 1..Len(arg) : ~HasKey(codedict.items, arg[k])}
            IN  unknown # {} =>
                    /\ outcome = RaisedAt(UnknownSymbol, Min(unknown))
                    /\ self = before \o ConcatCodes(codedict.items,
                                                    SubSeq(arg, 1, Min(unknown) - 1))

\* C5 witness: encode failed at its second symbol after appending the codeword
\* of the first to a non-empty receiver.
C5_Witness ==
    /\ pc = "done" /\ op = "encode"
    /\ outcome = RaisedAt(UnknownSymbol, 2)
    /\ before # <<>>
    /\ Len(self) > Len(before)

\* How the bits after the first i parse against the table itself: complete,
\* incomplete (they end inside a codeword), or malformed at the first bit that
\* leaves every codeword.
IsCodePrefix(items, w) == \E j \in 1..Len(items) : IsPrefix(w, items[j].bits)

RECURSIVE TableParse(_, _, _)
TableParse(items, bits, i) ==
    LET rest == SubSeq(bits, i + 1, Len(bits))
        whole == {j \in 1..Len(items) : IsPrefix(items[j].bits, rest)}
    IN  IF rest = <<>> THEN [res |-> "complete", at |-> 0]
        ELSE IF whole # {}
        THEN TableParse(items, bits, i + Len(items[CHOOSE j \in whole : TRUE].bits))
        ELSE IF IsCodePrefix(items, rest) THEN [res |-> "incomplete", at |-> Len(bits) + 1]
        ELSE [res |-> "malformed",
              at |-> i + Min({m \in 1..Len(rest) : ~IsCodePrefix(items, SubSeq(rest, 1, m))})]

\* C7: with a valid prefix-free table, decode returns a list only when the bits
\* are a whole number of codewords (and then the list spells exactly the bits);
\* bits that leave every codeword fail with the malformed-code error at that
\* bit, bits that end inside a codeword fail with the incomplete-code error,
\* and a failure returns no list.  {a: 1} on 101 fails at the second bit.
C7_BatchDecode ==
    (pc = "done" /\ op = "decode" /\ Valid(codedict) /\ PrefixFree(codedict.items)) =>
        LET p == TableParse(codedict.items, self, 0)
        IN  /\ outcome.kind = "return" =>
                /\ p.res = "complete"
                /\ ConcatCodes(codedict.items, outcome.value.items) = self
            /\ p.res = "malformed" => outcome = RaisedAt(MalformedCode, p.at)
            /\ p.res = "incomplete" => outcome = RaisedAt(IncompleteCode, p.at)
            /\ outcome.kind = "raise" => outcome.value = NoValue
            /\ (codedict = Dict(<<Item(SymA, "bitarray", <<1>>)>>) /\ self = <<1, 0, 1>>)
                    => outcome = RaisedAt(MalformedCode, 2)

\* C7 witness: decode of 101 with the table {a: 1} has failed.
C7_Witness ==
    /\ pc = "done" /\ op = "decode"
    /\ codedict = Dict(<<Item(SymA, "bitarray", <<1>>)>>)
    /\ self = <<1, 0, 1>>
    /\ outcome.kind = "raise"

(***************************************************************************)
(* Properties of frozenbitarray (checked under SpecFrozen).                *)
(***************************************************************************)
\* C6 (as claimed): every mutating operation tried on a frozenbitarray, with the
\* arguments the mutable operation takes, fails with NotImplementedError and
\* leaves the bits as they were created, after any number of such attempts.
C6_FrozenRejectsMutation ==
    pc = "mutate" => (outcome = Raised("NotImplementedError") /\ self = before)

\* C8 (as claimed): every reading operation succeeds on a frozenbitarray as it
\* does on a bitarray holding the same bits, with the same result.
C8_FrozenSharesReads ==
    pc = "read" => outcome = BitarrayRead(op, self, codedict).outcome

====
